---- MODULE Spec2Model ----
(***************************************************************************)
(* SSFR - road flow simulator (src/SSFR.py).                               *)
(*                                                                         *)
(* Six state machines share this module:                                   *)
(*   SpecAcc   the fractional injection accumulator                        *)
(*             (vehicles_fractional_add) applied step after step;          *)
(*   Spec      the simulation driver: build_roads, then per step the four  *)
(*             phases of step(), then the final metrics of run();          *)
(*   SpecBuild run() from the decoded store to the network it builds;      *)
(*   SpecLive  the step loop of run() with no end to it;                   *)
(*   SpecMib   the store codec: parse_mib_text and atomic_write_mib with   *)
(*             the file system it acts on;                                 *)
(*   SpecRun   one whole call of run() with the files around it.           *)
(*                                                                         *)
(* Python floats are IEEE-754 doubles.  The code computes the injection    *)
(* and outflow amounts in doubles, so the model carries them as exact      *)
(* dyadic rationals n / 2^s, n a big natural, and rounds every operation   *)
(* to 53 significant bits, ties to even, as the hardware does.             *)
(***************************************************************************)
EXTENDS Integers, Sequences, FiniteSets, TLC

VARIABLES
    \* ---- accumulator machine
    accRate,        \* rate_per_min handed to vehicles_fractional_add
    accStepSec,     \* step_sec handed to vehicles_fractional_add
    accAccum,       \* the accumulator (a double)
    accSteps,       \* number of applications so far
    accTotal,       \* sum of the to_add results so far
    \* ---- simulation driver: the locals of run() and step()
    pc,             \* where run() stands: "lights", "inject", "move", "wait"
                    \* inside step(); "lights" is also the loop head; "done"
    data,           \* the decoded store (parse_mib_text's dict)
    roads,          \* id -> Road
    dest_map,       \* origin id -> sequence of destination ids
    step_sec,
    fixed_yellow,
    current_time,
    steps_done,     \* steps completed (run's loop counter s)
    entry,          \* roads as they were when the current step() was entered
    snapshot,       \* step()'s deep copy of roads, taken after injection
    moved,          \* step()'s three counters
    injected,
    blocked,
    log,            \* the lines step() has printed in the current call
    cumulative,     \* run()'s cumulative_moved / _injected / _blocked
    metrics,        \* total_vehicles, average_wait_time, most_congested
    \* ---- store codec: the file system and the locals of atomic_write_mib
    fs_main,        \* the file at path
    fs_bak,         \* the file at path + ".bak"
    fs_tmp,         \* the file mkstemp made
    fs_old,         \* history: the file at path when the run began
    bak_copy,       \* how shutil.copy2 ended: "none" (not called yet), "ok",
                    \* "failed"
    raw_lines,      \* load_mib_raw's list of lines
    data_map,       \* the mapping to write: a dict, as its (key, value)
                    \* pairs in iteration order
    existing_keys,  \* atomic_write_mib's set existing_keys
    wpc,            \* where the write stands
    widx,           \* next raw line to write / next pair of data_map to visit
    write           \* run()'s write argument

accVars == <<accRate, accStepSec, accAccum, accSteps, accTotal>>

simVars == <<pc, data, roads, dest_map, step_sec, fixed_yellow, current_time,
             steps_done, entry, snapshot, moved, injected, blocked, log, cumulative,
             metrics>>

mibVars == <<fs_main, fs_bak, fs_tmp, fs_old, bak_copy, raw_lines, data_map,
             existing_keys, wpc, widx, write>>

vars == <<accVars, simVars, mibVars>>

-----------------------------------------------------------------------------
(***************************************************************************)
(* Big naturals: a sequence of limbs in base 2^15, least significant limb  *)
(* first, no zero limb at the top.  (Limbs keep every intermediate value   *)
(* within 32 bits.)                                                        *)
(***************************************************************************)

\* Bits in a limb.
LimbBits == 15

Base == 2 ^ LimbBits

\* Significant bits of a Python float (IEEE-754 binary64).
MantissaBits == 53

\* Zero limbs appended to the dividend by the long division (75 bits).
DivLimbs == 5

RECURSIVE Trim(_)
Trim(b) ==
    IF b = <<>> THEN <<>>
    ELSE IF b[Len(b)] = 0 THEN Trim(SubSeq(b, 1, Len(b) - 1))
    ELSE b

BigNat(k) == IF k = 0 THEN <<>> ELSE Trim(<<k % Base, k \div Base>>)

RECURSIVE BigVal(_)
BigVal(b) == IF b = <<>> THEN 0 ELSE b[1] + Base * BigVal(Tail(b))

Limb(b, i) == IF i >= 1 /\ i <= Len(b) THEN b[i] ELSE 0

\* Number of bits of a limb value.
LimbLen(v) == IF v = 0 THEN 0 ELSE CHOOSE k \in 1..LimbBits : 2^(k-1) <= v /\ v < 2^k

\* Number of bits of a trimmed big natural.
BitLen(b) == IF b = <<>> THEN 0 ELSE LimbBits * (Len(b) - 1) + LimbLen(b[Len(b)])

\* b * 2^k
ShiftLeft(b, k) ==
    LET q == k \div LimbBits
        r == k % LimbBits
    IN  IF b = <<>> THEN <<>>
        ELSE Trim([i \in 1..(Len(b) + q + 1) |->
                    ((Limb(b, i - q) * 2^r) % Base)
                    + (Limb(b, i - q - 1) \div 2^(LimbBits - r))])

\* floor(b / 2^k)
ShiftRight(b, k) ==
    LET q == k \div LimbBits
        r == k % LimbBits
    IN  IF Len(b) <= q THEN <<>>
        ELSE Trim([i \in 1..(Len(b) - q) |->
                    (Limb(b, i + q) \div 2^r)
                    + ((Limb(b, i + q + 1) % 2^r) * 2^(LimbBits - r))])

\* b mod 2^k
LowBits(b, k) ==
    LET q == k \div LimbBits
        r == k % LimbBits
    IN  Trim([i \in 1..(q + 1) |->
                IF i <= q THEN Limb(b, i) ELSE Limb(b, i) % 2^r])

\* Bit i (1 = least significant) of b.
BitAt(b, i) ==
    (Limb(b, ((i - 1) \div LimbBits) + 1) \div 2^((i - 1) % LimbBits)) % 2

RECURSIVE AddBig(_, _, _, _)
AddBig(a, b, i, carry) ==
    IF i > Len(a) /\ i > Len(b)
    THEN (IF carry = 0 THEN <<>> ELSE <<carry>>)
    ELSE LET t == Limb(a, i) + Limb(b, i) + carry
         IN  <<t % Base>> \o AddBig(a, b, i + 1, t \div Base)

\* k * b for a natural k < Base
RECURSIVE MulBig(_, _, _, _)
MulBig(k, b, i, carry) ==
    IF i > Len(b)
    THEN (IF carry = 0 THEN <<>> ELSE <<carry>>)
    ELSE LET t == k * b[i] + carry
         IN  <<t % Base>> \o MulBig(k, b, i + 1, t \div Base)

\* Long division of num * Base^DivLimbs by den (num, den < Base): the
\* quotient, least significant limb first, and the remainder.  i counts the
\* limbs of the dividend from the top: num, then DivLimbs zeros.
RECURSIVE LongDiv(_, _, _, _, _)
LongDiv(num, den, i, rem, acc) ==
    IF i > 1 + DivLimbs
    THEN [q |-> Trim(acc), r |-> rem]
    ELSE LET t == rem * Base + (IF i = 1 THEN num ELSE 0)
         IN  LongDiv(num, den, i + 1, t % den, <<t \div den>> \o acc)

\* Number of zero bits at the bottom of a limb value v # 0.
LimbZeros(v) == CHOOSE k \in 0..(LimbBits - 1) : v % 2^(k + 1) = 2^k

\* Index of the lowest non-zero limb of b # 0.
LowLimb(b) == CHOOSE j \in 1..Len(b) : b[j] # 0 /\ \A i \in 1..(j - 1) : b[i] = 0

\* Number of zero bits at the bottom of b (b # 0).
TrailingZeros(b) == LimbBits * (LowLimb(b) - 1) + LimbZeros(b[LowLimb(b)])

-----------------------------------------------------------------------------
(***************************************************************************)
(* Doubles >= 0: [n |-> big natural, s |-> scale], the value n / 2^s, kept *)
(* canonical (n odd or s = 0) so that equal values are equal states.       *)
(***************************************************************************)

FZero == [n |-> <<>>, s |-> 0]

Min(a, b) == IF a <= b THEN a ELSE b

Max(a, b) == IF a >= b THEN a ELSE b

\* n / 2^sc with d bits dropped from both.
Shrink(n, sc, d) == [n |-> ShiftRight(n, d), s |-> sc - d]

\* The canonical form of n / 2^sc, n trimmed.
Canon(n, sc) ==
    IF n = <<>> THEN FZero ELSE Shrink(n, sc, Min(TrailingZeros(n), sc))

\* Dropping the low d >= 1 bits of n rounds up: the first dropped bit is 1
\* and either a lower bit is 1 or the last kept bit is 1 (ties to even).
RoundsUp(n, d) ==
    /\ BitAt(n, d) = 1
    /\ (LowBits(n, d - 1) # <<>> \/ BitAt(n, d + 1) = 1)

\* n / 2^sc with its low d >= 1 bits rounded away.
RoundDrop(n, sc, d) ==
    Canon(Trim(IF RoundsUp(n, d)
               THEN AddBig(ShiftRight(n, d), <<1>>, 1, 0)
               ELSE ShiftRight(n, d)),
          sc - d)

\* Round the exact dyadic n / 2^sc (n trimmed) to the nearest double, ties
\* to even.
Round53(n, sc) ==
    IF BitLen(n) <= MantissaBits
    THEN Canon(n, sc)
    ELSE RoundDrop(n, sc, BitLen(n) - MantissaBits)

\* The quotient limbs q and remainder r of a long division as a double:
\* one more bit below the quotient records a non-zero remainder.
RoundQuotient(d) ==
    Round53(Trim(AddBig(ShiftLeft(d.q, 1),
                        IF d.r = 0 THEN <<>> ELSE <<1>>, 1, 0)),
            LimbBits * DivLimbs + 1)

\* num / float(den): the correctly rounded quotient of two small integers.
FDivInt(num, den) == RoundQuotient(LongDiv(num, den, 1, 0, <<>>))

\* k * x for an integer k >= 0 and a double x, rounded.
FMulInt(k, x) == Round53(Trim(MulBig(k, x.n, 1, 0)), x.s)

\* x + y for doubles brought to the common scale sc, rounded.
AddAtScale(x, y, sc) ==
    Round53(Trim(AddBig(ShiftLeft(x.n, sc - x.s), ShiftLeft(y.n, sc - y.s), 1, 0)),
            sc)

\* x + y, rounded.
FAdd(x, y) == AddAtScale(x, y, Max(x.s, y.s))

\* math.floor(x) for x >= 0.
FFloor(x) == BigVal(ShiftRight(x.n, x.s))

\* x - floor(x): the bits below the binary point; exact in doubles.
FFrac(x) == Canon(LowBits(x.n, x.s), x.s)

\* x < 1.0
FLessOne(x) == BitLen(x.n) <= x.s

-----------------------------------------------------------------------------
(***************************************************************************)
(* vehicles_fractional_add and vehicles_per_step                           *)
(***************************************************************************)

\* rate_per_min * (step_sec / 60.0)
Product(rate_per_min, sec) == FMulInt(rate_per_min, FDivInt(sec, 60))

\* The same product, looked up where it has been tabulated (the product
\* depends on nothing but its two operands).
TableRates == 0..30

TableSecs == {1, 5, 10, 20, 30, 60}

ProductTable == [rate \in TableRates, sec \in TableSecs |-> Product(rate, sec)]

RateTimesStep(rate_per_min, sec) ==
    IF rate_per_min \in TableRates /\ sec \in TableSecs
    THEN ProductTable[rate_per_min, sec]
    ELSE Product(rate_per_min, sec)

\* to_add = int(math.floor(accum)); accum -= to_add
SplitAccum(accum) == [to_add |-> FFloor(accum), accum |-> FFrac(accum)]

VehiclesFractionalAdd(rate_per_min, sec, accumulator) ==
    SplitAccum(FAdd(accumulator, RateTimesStep(rate_per_min, sec)))

VehiclesPerStep(rate_per_min, sec) ==
    Max(0, FFloor(RateTimesStep(rate_per_min, sec)))

-----------------------------------------------------------------------------
(***************************************************************************)
(* SpecAcc: vehicles_fractional_add applied to its own result, as step()   *)
(* does for one road, from an empty accumulator.                           *)
(***************************************************************************)

\* A file that does not exist, and a file holding text (a sequence of
\* characters).
Absent == [exists |-> FALSE, text |-> <<>>]

File(text) == [exists |-> TRUE, text |-> text]

\* The store codec's variables while another machine runs.
MibIdle ==
    /\ fs_main = Absent
    /\ fs_bak = Absent
    /\ fs_tmp = Absent
    /\ fs_old = Absent
    /\ bak_copy = "none"
    /\ raw_lines = <<>>
    /\ data_map = <<>>
    /\ existing_keys = {}
    /\ wpc = "idle"
    /\ widx = 0
    /\ write = FALSE

\* The driver's variables while another machine runs.
SimIdle ==
    /\ pc = "idle"
    /\ data = <<>>
    /\ roads = <<>>
    /\ dest_map = <<>>
    /\ step_sec = 0
    /\ fixed_yellow = 0
    /\ current_time = 0
    /\ steps_done = 0
    /\ entry = <<>>
    /\ snapshot = <<>>
    /\ moved = 0
    /\ injected = 0
    /\ blocked = 0
    /\ log = <<>>
    /\ cumulative = <<>>
    /\ metrics = <<>>

\* Largest trafficRate tried.
MaxRate == 8

\* Number of consecutive steps followed.
MaxAccSteps == 7

AccStepChoices == {5, 10, 20, 60}

AccInit ==
    /\ SimIdle
    /\ MibIdle
    /\ accRate \in 0..MaxRate
    /\ accStepSec \in AccStepChoices
    /\ accAccum = FZero
    /\ accSteps = 0
    /\ accTotal = 0

AccApply ==
    /\ accSteps < MaxAccSteps
    /\ \E r \in {VehiclesFractionalAdd(accRate, accStepSec, accAccum)} :
           /\ accAccum' = r.accum
           /\ accTotal' = accTotal + r.to_add
    /\ accSteps' = accSteps + 1
    /\ UNCHANGED <<accRate, accStepSec>>
    /\ UNCHANGED <<simVars, mibVars>>

AccNext == AccApply

SpecAcc == AccInit /\ [][AccNext]_vars

\* C6: from an empty accumulator, after k steps the vehicles offered for
\* injection total floor(k * trafficRate * stepSeconds / 60) (7 after 6
\* steps at trafficRate 7 and a 10 s step), and the accumulator stays in
\* [0, 1).
C6_AccumulatorExact ==
    /\ accTotal = (accSteps * accRate * accStepSec) \div 60
    /\ FLessOne(accAccum)


-----------------------------------------------------------------------------
(***************************************************************************)
(* The decoded store.  A value of the dict is a piece of text; the model   *)
(* keeps what safe_int and str make of it: Num(k) is text that             *)
(* int(float(.)) turns into k, Str(x) is any other text, None is a missing *)
(* key.  The dict is laid out by key family:                               *)
(*   data.<name>            the scalar key <name>                          *)
(*   data.bare[f]           the key f           (a road field, all roads)  *)
(*   data.idx[i][f]         the key f.i         (a road field, road i)     *)
(*   data.routes[k]         the keys destinationRoadId.<k>, destinationId.<k>, *)
(*                          in the order the dict iterates them            *)
(***************************************************************************)

None == [t |-> "none", n |-> 0, x |-> ""]

Num(k) == [t |-> "num", n |-> k, x |-> ""]

Str(x) == [t |-> "str", n |-> 0, x |-> x]

RoadFields == {"vehicleCount", "trafficRate", "trafficLightColor",
               "remainingTime", "maxCapacity", "outflowRate",
               "greenLightTime", "redLightTime"}

\* def safe_int(val, default=0): int(float(val)), the default on any failure
\* (None, unparsable text).
SafeInt(val, default) == IF val.t = "num" THEN val.n ELSE default

\* str(v).lower() of a colour value; text is kept in lower case throughout.
LowerStr(val) ==
    IF val.t = "str" THEN val.x
    ELSE IF val.t = "num" THEN "<number>"
    ELSE "none"

\* class Road: the constructor's defaults.
NewRoad(idx) ==
    [idx               |-> idx,
     vehicleCount      |-> 0,
     trafficRate       |-> 0,
     trafficLightColor |-> "red",
     remainingTime     |-> 0,
     maxCapacity       |-> 1000,
     outflowRate       |-> 0,
     greenLightTime    |-> 30,
     redLightTime      |-> 30,
     in_accumulator    |-> FZero,
     wait_accum        |-> 0]

\* build_roads' inner get(key, default): key.i, then key, then the default.
Get(d, i, key, default) ==
    IF d.idx[i][key].t # "none" THEN d.idx[i][key]
    ELSE IF d.bare[key].t # "none" THEN d.bare[key]
    ELSE default

\* One road of build_roads: the reads (every safe_int call leaves its
\* default parameter at 0), then the normalisation.
BuildRoad(d, i) ==
    LET r0 == NewRoad(i)
        vc == SafeInt(Get(d, i, "vehicleCount", Num(r0.vehicleCount)), 0)
        tr == SafeInt(Get(d, i, "trafficRate", Num(r0.trafficRate)), 0)
        co == LowerStr(Get(d, i, "trafficLightColor", Str(r0.trafficLightColor)))
        rt == SafeInt(Get(d, i, "remainingTime", Num(r0.remainingTime)), 0)
        mc == SafeInt(Get(d, i, "maxCapacity", Num(r0.maxCapacity)), 0)
        ofr == SafeInt(Get(d, i, "outflowRate", Num(r0.outflowRate)), 0)
        gt == SafeInt(Get(d, i, "greenLightTime", Num(r0.greenLightTime)), 0)
        rd == SafeInt(Get(d, i, "redLightTime", Num(r0.redLightTime)), 0)
    IN  [r0 EXCEPT
            !.vehicleCount      = IF vc < 0 THEN 0 ELSE vc,
            !.trafficRate       = IF tr < 0 THEN 0 ELSE tr,
            !.trafficLightColor = co,
            !.remainingTime     = IF rt < 0 THEN 0 ELSE rt,
            !.maxCapacity       = IF mc <= 0 THEN 1000 ELSE mc,
            !.outflowRate       = IF ofr < 0 THEN 0 ELSE ofr,
            !.greenLightTime    = gt,
            !.redLightTime      = rd]

BuildRoads(d, n) == [i \in 1..n |-> BuildRoad(d, i)]

\* dest_map.setdefault(origin, []).append(dest)
AppendDest(dm, origin, dest) ==
    IF origin \in DOMAIN dm
    THEN [dm EXCEPT ![origin] = Append(@, dest)]
    ELSE [o \in (DOMAIN dm) \cup {origin} |->
            IF o = origin THEN <<dest>> ELSE dm[o]]

\* run(): the scan of the destinationRoadId.<idx> keys.  safe_int never
\* raises, so neither except branch is taken: unparsable text is origin or
\* destination 0.  Only a missing destinationId.<idx> skips the pair.
RECURSIVE ScanRoutes(_, _, _)
ScanRoutes(routes, k, dm) ==
    IF k > Len(routes) THEN dm
    ELSE LET origin == SafeInt(routes[k].roadId, 0)
             dest   == SafeInt(routes[k].destId, 0)
         IN  IF routes[k].destId.t = "none"
             THEN ScanRoutes(routes, k + 1, dm)
             ELSE ScanRoutes(routes, k + 1, AppendDest(dm, origin, dest))

\* run(): dest_map, with the 1 -> 2 fallback when it came out empty.
BuildDestMap(d, num_roads) ==
    LET dm == ScanRoutes(d.routes, 1, <<>>)
    IN  IF DOMAIN dm = {} /\ num_roads >= 2
        THEN [o \in {1} |-> <<2>>]
        ELSE dm

\* run(): the configuration scalars.
NumRoads(d) == Max(1, SafeInt(IF d.numberOfRoads.t = "none" THEN Num(2) ELSE d.numberOfRoads, 0))

StepSec(d) == Max(1, SafeInt(IF d.simulationStep.t = "none" THEN Num(5) ELSE d.simulationStep, 0))

CurrentTime(d) == SafeInt(IF d.currentSimulationTime.t = "none" THEN Num(0) ELSE d.currentSimulationTime, 0)

FixedYellow(d) == Max(1, SafeInt(IF d.fixedYellowTime.t = "none" THEN Num(4) ELSE d.fixedYellowTime, 0))

-----------------------------------------------------------------------------
(***************************************************************************)
(* update_traffic_lights                                                   *)
(***************************************************************************)

\* update_traffic_lights with the two durations taken the wrong way round:
\* red starts with greenLightTime, green with redLightTime.
UpdateLightSwapped(r, fixed_yellow_, step_seconds) ==
    LET rt == IF r.remainingTime > 0
              THEN r.remainingTime - step_seconds
              ELSE r.remainingTime
    IN  IF rt <= 0
        THEN IF r.trafficLightColor = "green"
             THEN [r EXCEPT !.trafficLightColor = "yellow",
                            !.remainingTime = fixed_yellow_]
             ELSE IF r.trafficLightColor = "yellow"
             THEN [r EXCEPT !.trafficLightColor = "red",
                            !.remainingTime = r.greenLightTime]
             ELSE IF r.trafficLightColor = "red"
             THEN [r EXCEPT !.trafficLightColor = "green",
                            !.remainingTime = r.redLightTime]
             ELSE [r EXCEPT !.trafficLightColor = "red",
                            !.remainingTime = r.redLightTime]
        ELSE [r EXCEPT !.remainingTime = rt]

\* update_traffic_lights with the time a phase overran taken off the next
\* phase.
UpdateLightCarry(r, fixed_yellow_, step_seconds) ==
    LET rt == IF r.remainingTime > 0
              THEN r.remainingTime - step_seconds
              ELSE r.remainingTime
    IN  IF rt <= 0
        THEN IF r.trafficLightColor = "green"
             THEN [r EXCEPT !.trafficLightColor = "yellow",
                            !.remainingTime = fixed_yellow_ + rt]
             ELSE IF r.trafficLightColor = "yellow"
             THEN [r EXCEPT !.trafficLightColor = "red",
                            !.remainingTime = r.redLightTime + rt]
             ELSE IF r.trafficLightColor = "red"
             THEN [r EXCEPT !.trafficLightColor = "green",
                            !.remainingTime = r.greenLightTime + rt]
             ELSE [r EXCEPT !.trafficLightColor = "red",
                            !.remainingTime = r.redLightTime + rt]
        ELSE [r EXCEPT !.remainingTime = rt]

\* update_traffic_lights with the change of colour inside "if
\* r.remainingTime > 0": a timer that is 0 on entry never fires.
UpdateLightNested(r, fixed_yellow_, step_seconds) ==
    IF r.remainingTime > 0 /\ r.remainingTime - step_seconds <= 0
    THEN IF r.trafficLightColor = "green"
         THEN [r EXCEPT !.trafficLightColor = "yellow",
                        !.remainingTime = fixed_yellow_]
         ELSE IF r.trafficLightColor = "yellow"
         THEN [r EXCEPT !.trafficLightColor = "red",
                        !.remainingTime = r.redLightTime]
         ELSE IF r.trafficLightColor = "red"
         THEN [r EXCEPT !.trafficLightColor = "green",
                        !.remainingTime = r.greenLightTime]
         ELSE [r EXCEPT !.trafficLightColor = "red",
                        !.remainingTime = r.redLightTime]
    ELSE IF r.remainingTime > 0
    THEN [r EXCEPT !.remainingTime = @ - step_seconds]
    ELSE r

\* One road's pass of the loop: lines 171-192.
UpdateLight(r, fixed_yellow_, step_seconds) ==
    LET rt == IF r.remainingTime > 0
              THEN r.remainingTime - step_seconds
              ELSE r.remainingTime
    IN  IF rt <= 0
        THEN IF r.trafficLightColor = "green"
             THEN [r EXCEPT !.trafficLightColor = "yellow",
                            !.remainingTime = fixed_yellow_]
             ELSE IF r.trafficLightColor = "yellow"
             THEN [r EXCEPT !.trafficLightColor = "red",
                            !.remainingTime = r.redLightTime]
             ELSE IF r.trafficLightColor = "red"
             THEN [r EXCEPT !.trafficLightColor = "green",
                            !.remainingTime = r.greenLightTime]
             ELSE [r EXCEPT !.trafficLightColor = "red",
                            !.remainingTime = r.redLightTime]
        ELSE [r EXCEPT !.remainingTime = rt]

UpdateTrafficLights(rs, fixed_yellow_, step_seconds) ==
    [i \in DOMAIN rs |-> UpdateLight(rs[i], fixed_yellow_, step_seconds)]

-----------------------------------------------------------------------------
(***************************************************************************)
(* step(): the running state of one call is                                *)
(*   [roads, moved, injected, blocked, log]                                *)
(* and a printed line is [tag, rid, dest, alloc, n]: the tag in brackets,  *)
(* the origin, the destination, the amount tried and the amount done.      *)
(***************************************************************************)

Line(tag, rid, dest, alloc, n) ==
    [tag |-> tag, rid |-> rid, dest |-> dest, alloc |-> alloc, n |-> n]

\* Lines 207-214: add vehicles were offered to road rid, add_ok fit.
Admit(st, rid, add, add_ok) ==
    [st EXCEPT
        !.roads[rid].vehicleCount = @ + add_ok,
        !.injected = st.injected + add_ok,
        !.blocked = st.blocked + (add - add_ok),
        !.log = Append(st.log, Line("INJ", rid, rid, add, add_ok))]

\* The offer admitted whole, whatever room the road has.
OfferWithoutRoomCheck(st, rid, v) ==
    IF v.to_add > 0
    THEN Admit([st EXCEPT !.roads[rid].in_accumulator = v.accum], rid, v.to_add, v.to_add)
    ELSE [st EXCEPT !.roads[rid].in_accumulator = v.accum]

\* Lines 206-212: v is what vehicles_fractional_add returned for road rid.
Offer(st, rid, v) ==
    IF v.to_add > 0
    THEN Admit([st EXCEPT !.roads[rid].in_accumulator = v.accum], rid, v.to_add,
               Min(v.to_add,
                   Max(0, st.roads[rid].maxCapacity - st.roads[rid].vehicleCount)))
    ELSE [st EXCEPT !.roads[rid].in_accumulator = v.accum]

\* Phase 1 for one road: lines 205-214.
InjectRoad(st, rid, step_seconds) ==
    Offer(st, rid,
          VehiclesFractionalAdd(st.roads[rid].trafficRate, step_seconds,
                                st.roads[rid].in_accumulator))

RECURSIVE InjectAll(_, _, _)
InjectAll(st, rid, step_seconds) ==
    IF rid > Len(st.roads) THEN st
    ELSE InjectAll(InjectRoad(st, rid, step_seconds), rid + 1, step_seconds)

\* Lines 231-237: an origin without destinations empties outwards.
ExternalEgress(st, rid, can_cross) ==
    [st EXCEPT
        !.roads[rid].vehicleCount = @ - can_cross,
        !.moved = st.moved + can_cross,
        !.log = Append(st.log, Line("OUT", rid, 0, can_cross, can_cross))]

\* Lines 248-255: the destination is no road of the network.
UnknownDest(st, rid, dest, alloc) ==
    [st EXCEPT
        !.roads[rid].vehicleCount = @ - alloc,
        !.moved = st.moved + alloc,
        !.log = Append(st.log, Line("OUT-DEST", rid, dest, alloc, alloc))]

\* The move to a known destination without the origin giving the vehicles
\* up: they are then on both roads.
KnownDestKeepsOrigin(st, rid, dest, alloc) ==
    LET dest_space     == Max(0, st.roads[dest].maxCapacity - st.roads[dest].vehicleCount)
        actually_moved == Min(alloc, dest_space)
        received       == [st.roads EXCEPT ![dest].vehicleCount = @ + actually_moved]
    IN  IF actually_moved <= 0
        THEN [st EXCEPT
                !.blocked = st.blocked + alloc,
                !.log = Append(st.log, Line("BLOCKED", rid, dest, alloc, 0))]
        ELSE [st EXCEPT
                !.roads = received,
                !.moved = st.moved + actually_moved,
                !.log = Append(st.log, Line("MOVE", rid, dest, alloc, actually_moved))]

\* The move to a known destination whatever room the destination has.
KnownDestUnchecked(st, rid, dest, alloc) ==
    LET received == [st.roads EXCEPT ![dest].vehicleCount = @ + alloc]
    IN  [st EXCEPT
            !.roads = [received EXCEPT ![rid].vehicleCount = @ - alloc],
            !.moved = st.moved + alloc,
            !.log = Append(st.log, Line("MOVE", rid, dest, alloc, alloc))]

\* Lines 256-268: the destination is a road; its free space is read live.
KnownDest(st, rid, dest, alloc) ==
    LET dest_space     == Max(0, st.roads[dest].maxCapacity - st.roads[dest].vehicleCount)
        actually_moved == Min(alloc, dest_space)
        received       == [st.roads EXCEPT ![dest].vehicleCount = @ + actually_moved]
    IN  IF actually_moved <= 0
        THEN [st EXCEPT
                !.blocked = st.blocked + alloc,
                !.log = Append(st.log, Line("BLOCKED", rid, dest, alloc, 0))]
        ELSE [st EXCEPT
                !.roads = [received EXCEPT ![rid].vehicleCount = @ - actually_moved],
                !.moved = st.moved + actually_moved,
                !.log = Append(st.log, Line("MOVE", rid, dest, alloc, actually_moved))]

\* Lines 243-268: the allocations of one origin, in list order (i from 0).
\* Lines 244-268: one allocation.
Allocate(st, rid, dest, alloc) ==
    IF alloc <= 0 THEN st
    ELSE IF dest \notin DOMAIN st.roads
    THEN UnknownDest(st, rid, dest, alloc)
    ELSE KnownDest(st, rid, dest, alloc)

RECURSIVE MoveDests(_, _, _, _, _, _)
MoveDests(st, rid, dests, i, per_dest, rest) ==
    IF i >= Len(dests) THEN st
    ELSE MoveDests(Allocate(st, rid, dests[i + 1],
                            per_dest + (IF i < rest THEN 1 ELSE 0)),
                   rid, dests, i + 1, per_dest, rest)

\* min(r_snap.vehicleCount, vehicles_per_step(r_snap.outflowRate, step_seconds))
CanCross(r_snap, step_seconds) ==
    Min(r_snap.vehicleCount, VehiclesPerStep(r_snap.outflowRate, step_seconds))

\* Every colour but red lets vehicles through.
PermittedUnlessRed(r) == r.trafficLightColor # "red"

\* Red lets vehicles through as well.
PermittedUnderRed(r) == r.trafficLightColor \in {"green", "yellow", "red"}

Permitted(r) == r.trafficLightColor \in {"green", "yellow"}

\* Lines 225-268: an origin whose light permits, with can_cross to send.
Cross(st, rid, dests, can_cross) ==
    IF can_cross <= 0
    THEN [st EXCEPT !.log = Append(st.log, Line("NO_MOVE", rid, 0, 0, 0))]
    ELSE IF dests = <<>>
    THEN ExternalEgress(st, rid, can_cross)
    ELSE MoveDests(st, rid, dests, 0,
                   can_cross \div Len(dests), can_cross % Len(dests))

\* dest_map.get(rid, [])
DestsOf(dm, rid) == IF rid \in DOMAIN dm THEN dm[rid] ELSE <<>>

\* One origin read from the live roads instead of the snapshot.
MoveOriginLive(st, rid, snap, dm, step_seconds) ==
    IF ~Permitted(st.roads[rid])
    THEN [st EXCEPT !.log = Append(st.log, Line("STOP", rid, 0, 0, 0))]
    ELSE Cross(st, rid, DestsOf(dm, rid), CanCross(st.roads[rid], step_seconds))

\* Lines 218-271: one origin of the snapshot.
MoveOrigin(st, rid, snap, dm, step_seconds) ==
    IF ~Permitted(snap[rid])
    THEN [st EXCEPT !.log = Append(st.log, Line("STOP", rid, 0, 0, 0))]
    ELSE Cross(st, rid, DestsOf(dm, rid), CanCross(snap[rid], step_seconds))

\* The origins served from the highest id down.
RECURSIVE MoveDown(_, _, _, _, _, _)
MoveDown(st, rid, low, snap, dm, step_seconds) ==
    IF rid < low THEN st
    ELSE MoveDown(MoveOrigin(st, rid, snap, dm, step_seconds),
                  rid - 1, low, snap, dm, step_seconds)

MoveAllDescending(st, rid, snap, dm, step_seconds) ==
    MoveDown(st, Len(snap), rid, snap, dm, step_seconds)

\* Phase 2: the origins of the snapshot in dict order, ascending id.
RECURSIVE MoveAll(_, _, _, _, _)
MoveAll(st, rid, snap, dm, step_seconds) ==
    IF rid > Len(snap) THEN st
    ELSE MoveAll(MoveOrigin(st, rid, snap, dm, step_seconds),
                 rid + 1, snap, dm, step_seconds)

\* Phase 3: r._wait_accum += r.vehicleCount * step_seconds (vehicle-seconds;
\* whole numbers, which doubles hold exactly).
WaitAll(rs, step_seconds) ==
    [i \in DOMAIN rs |->
        [rs[i] EXCEPT !.wait_accum = @ + rs[i].vehicleCount * step_seconds]]

-----------------------------------------------------------------------------
(***************************************************************************)
(* run(): the final metrics and the write-back of the fields into data     *)
(***************************************************************************)

RECURSIVE SumField(_, _, _)
SumField(rs, i, f) ==
    IF i > Len(rs) THEN 0 ELSE rs[i][f] + SumField(rs, i + 1, f)

TotalVehicles(rs) == SumField(rs, 1, "vehicleCount")

\* max(roads.values(), key=lambda R: R.vehicleCount).idx : Python's max
\* keeps the first of several maximal items.
RECURSIVE MaxRoad(_, _, _)
MaxRoad(rs, i, best) ==
    IF i > Len(rs) THEN best
    ELSE IF rs[i].vehicleCount > rs[best].vehicleCount
    THEN MaxRoad(rs, i + 1, i)
    ELSE MaxRoad(rs, i + 1, best)

\* The last of several maximal roads instead of the first.
RECURSIVE MaxRoadLast(_, _, _)
MaxRoadLast(rs, i, best) ==
    IF i > Len(rs) THEN best
    ELSE IF rs[i].vehicleCount >= rs[best].vehicleCount
    THEN MaxRoadLast(rs, i + 1, i)
    ELSE MaxRoadLast(rs, i + 1, best)

MostCongestedLast(rs) == rs[MaxRoadLast(rs, 2, 1)].idx

MostCongested(rs) == rs[MaxRoad(rs, 2, 1)].idx

\* int(total_vehicle_seconds / max(1, total_vehicles)) if total_vehicles > 0
\* else 0; the operands are small whole numbers, so the double quotient
\* truncates to the integer quotient.
AverageWaitTime(rs) ==
    LET total == TotalVehicles(rs)
    IN  IF total > 0 THEN SumField(rs, 1, "wait_accum") \div Max(1, total) ELSE 0

\* Lines 356-363: the fields run() puts back into data.
UpdateData(d, rs, now, m) ==
    [d EXCEPT
        !.idx = [i \in DOMAIN d.idx |->
                    IF i \in DOMAIN rs
                    THEN [d.idx[i] EXCEPT
                            !.vehicleCount = Num(rs[i].vehicleCount),
                            !.remainingTime = Num(Max(0, rs[i].remainingTime)),
                            !.trafficLightColor = Str(rs[i].trafficLightColor)]
                    ELSE d.idx[i]],
        !.currentSimulationTime = Num(now),
        !.totalVehicles = Num(m.total_vehicles),
        !.averageWaitTime = Num(m.average_wait_time),
        !.mostCongestedRoad = Num(m.most_congested)]

-----------------------------------------------------------------------------
(***************************************************************************)
(* Spec: run() on a store built by Store from the choices below.           *)
(***************************************************************************)

\* Largest number of steps a run is followed for (run's steps argument).
MaxSteps == 2

\* Largest vehicleCount.<i> a store gives.
MaxCount == 3

\* Per-index keys exist for roads 1..3.
IdxRoads == 1..3

NoFields == [f \in RoadFields |-> None]

RoadCountChoices == {2, 3}

ColorChoices == {"green", "red", "blue"}

CountChoices == {0, 1, MaxCount}

TrafficRateChoices == {7, 12}

\* One step and two steps of 5 s.
RemainingTimeChoices == {5, 8}

\* The routing keys: no pair at all (the 1 -> 2 fallback); 1 and 2 into 3;
\* 1 and 2 into 1; 1 and 2 into 2; 1 into 2 and 3; an exit, an unparsable
\* origin and a pair without its destinationId.
Route(o, d) == [roadId |-> o, destId |-> d]

RouteChoices ==
    { <<>>,
      <<Route(Num(1), Num(3)), Route(Num(2), Num(3))>>,
      <<Route(Num(1), Num(1)), Route(Num(2), Num(1))>>,
      <<Route(Num(1), Num(2)), Route(Num(2), Num(2))>>,
      <<Route(Num(1), Num(2)), Route(Num(1), Num(3))>>,
      <<Route(Num(1), Num(9)), Route(Str("x"), Num(2)), Route(Num(2), None)>> }

\* The keys every store of the model shares: capacity 2, two vehicles per
\* 5 s step of outflow, a yellow of 3 s, red 5 s, green 10 s.
BareFields(rate, rt) ==
    [NoFields EXCEPT
        !.trafficRate = Num(rate),
        !.remainingTime = Num(rt),
        !.maxCapacity = Num(2),
        !.outflowRate = Num(24),
        !.greenLightTime = Num(10),
        !.redLightTime = Num(5)]

IdxFields(count, color) ==
    [NoFields EXCEPT !.vehicleCount = Num(count),
                     !.trafficLightColor = Str(color)]

\* A store with n roads: road i holds c[i] vehicles under colour k[i].
Store(n, rate, rt, c, k, rts) ==
    [numberOfRoads         |-> Num(n),
     simulationStep        |-> Num(5),
     fixedYellowTime       |-> Num(3),
     currentSimulationTime |-> None,
     totalVehicles         |-> None,
     averageWaitTime       |-> None,
     mostCongestedRoad     |-> None,
     bare                  |-> BareFields(rate, rt),
     idx                   |-> [i \in IdxRoads |->
                                  IF i <= n THEN IdxFields(c[i], k[i])
                                  ELSE NoFields],
     routes                |-> rts]

NoMetrics == [total_vehicles |-> 0, average_wait_time |-> 0, most_congested |-> 0]

NoCounts == [moved |-> 0, injected |-> 0, blocked |-> 0]

\* The accumulator machine's variables while the driver runs.
AccIdle ==
    /\ accRate = 0
    /\ accStepSec = 0
    /\ accAccum = FZero
    /\ accSteps = 0
    /\ accTotal = 0

\* run() up to the loop: lines 287-331.
Init ==
    /\ AccIdle
    /\ MibIdle
    /\ \E n \in RoadCountChoices, rate \in TrafficRateChoices,
          rt \in RemainingTimeChoices, rts \in RouteChoices :
            \E c \in [1..n -> CountChoices], k \in [1..n -> ColorChoices] :
                data = Store(n, rate, rt, c, k, rts)
    /\ roads = BuildRoads(data, NumRoads(data))
    /\ dest_map = BuildDestMap(data, NumRoads(data))
    /\ step_sec = StepSec(data)
    /\ fixed_yellow = FixedYellow(data)
    /\ current_time = CurrentTime(data)
    /\ pc = "lights"
    /\ steps_done = 0
    /\ entry = roads
    /\ snapshot = roads
    /\ moved = 0
    /\ injected = 0
    /\ blocked = 0
    /\ log = <<>>
    /\ cumulative = NoCounts
    /\ metrics = NoMetrics

\* step() is entered and phase 0 runs: lines 196-201.
UpdateLights ==
    /\ pc = "lights"
    /\ steps_done < MaxSteps
    /\ entry' = roads
    /\ roads' = UpdateTrafficLights(roads, fixed_yellow, step_sec)
    /\ moved' = 0
    /\ injected' = 0
    /\ blocked' = 0
    /\ log' = <<>>
    /\ pc' = "inject"
    /\ UNCHANGED <<accVars, mibVars, data, dest_map, step_sec, fixed_yellow, current_time, steps_done,
                   snapshot, cumulative, metrics>>

StepState == [roads |-> roads, moved |-> moved, injected |-> injected,
              blocked |-> blocked, log |-> log]

\* Phase 1, then the deep copy: lines 204-217.
Inject ==
    /\ pc = "inject"
    /\ \E st \in {InjectAll(StepState, 1, step_sec)} :
           /\ roads' = st.roads
           /\ injected' = st.injected
           /\ blocked' = st.blocked
           /\ log' = st.log
           /\ snapshot' = st.roads
    /\ pc' = "move"
    /\ UNCHANGED <<accVars, mibVars, data, dest_map, step_sec, fixed_yellow, current_time, steps_done,
                   entry, moved, cumulative, metrics>>

\* Phase 2: lines 218-271.
Move ==
    /\ pc = "move"
    /\ \E st \in {MoveAll(StepState, 1, snapshot, dest_map, step_sec)} :
           /\ roads' = st.roads
           /\ moved' = st.moved
           /\ blocked' = st.blocked
           /\ log' = st.log
    /\ pc' = "wait"
    /\ UNCHANGED <<accVars, mibVars, data, dest_map, step_sec, fixed_yellow, current_time, steps_done,
                   entry, snapshot, injected, cumulative, metrics>>

\* Phase 3, step() returns and run() adds up: lines 274-277 and 335-338.
Wait ==
    /\ pc = "wait"
    /\ roads' = WaitAll(roads, step_sec)
    /\ cumulative' = [moved    |-> cumulative.moved + moved,
                      injected |-> cumulative.injected + injected,
                      blocked  |-> cumulative.blocked + blocked]
    /\ current_time' = current_time + step_sec
    /\ steps_done' = steps_done + 1
    /\ pc' = "lights"
    /\ UNCHANGED <<accVars, mibVars, data, dest_map, step_sec, fixed_yellow, entry, snapshot,
                   moved, injected, blocked, log, metrics>>

\* The loop ends (steps = steps_done): the metrics and the fields put back into
\* data, lines 347-363.
Finish ==
    /\ pc = "lights"
    /\ \E m \in {[total_vehicles    |-> TotalVehicles(roads),
                  average_wait_time |-> AverageWaitTime(roads),
                  most_congested    |-> MostCongested(roads)]} :
           /\ metrics' = m
           /\ data' = UpdateData(data, roads, current_time, m)
    /\ pc' = "done"
    /\ UNCHANGED <<accVars, mibVars, roads, dest_map, step_sec, fixed_yellow, current_time, steps_done,
                   entry, snapshot, moved, injected, blocked, log, cumulative>>

Next ==
    \/ UpdateLights
    \/ Inject
    \/ Move
    \/ Wait
    \/ Finish

Spec == Init /\ [][Next]_vars

-----------------------------------------------------------------------------
(***************************************************************************)
(* SpecBuild: run() from the decoded store to the network, on stores with  *)
(* missing, unparsable and out-of-range values.                            *)
(***************************************************************************)

NumericFields == RoadFields \ {"trafficLightColor"}

\* The values a key is tried with: missing, unparsable text, zero, a
\* negative and a positive number.
FieldValueChoices == {None, Str("x"), Num(0), Num(-4), Num(6)}

\* numberOfRoads: missing, one road, three roads, unparsable text.
NumberOfRoadsChoices == {None, Num(1), Num(3), Str("x")}

\* The routing keys: no pair; a pair with an unparsable origin; with an
\* unparsable destination; without its destinationId; parsable pairs
\* among unparsable ones; parsable pairs only.
BuildRouteChoices ==
    { <<>>,
      <<Route(Str("x"), Num(2))>>,
      <<Route(Num(1), Str("x"))>>,
      <<Route(Num(1), None)>>,
      <<Route(Num(1), Num(2)), Route(Str("x"), Num(1)), Route(Num(2), Str("y"))>>,
      <<Route(Num(2), Num(1)), Route(Num(2), Num(3))>> }

\* A store in which one road field, as the bare key or as the key of road
\* 1, holds v, and no other road field is present.
BuildStore(n, f, v, bare, rts) ==
    [numberOfRoads         |-> n,
     simulationStep        |-> None,
     fixedYellowTime       |-> None,
     currentSimulationTime |-> None,
     totalVehicles         |-> None,
     averageWaitTime       |-> None,
     mostCongestedRoad     |-> None,
     bare                  |-> IF bare THEN [NoFields EXCEPT ![f] = v] ELSE NoFields,
     idx                   |-> [i \in IdxRoads |->
                                  IF ~bare /\ i = 1 THEN [NoFields EXCEPT ![f] = v]
                                  ELSE NoFields],
     routes                |-> rts]

\* run() has decoded the store: lines 287-288.
BuildInit ==
    /\ AccIdle
    /\ MibIdle
    /\ \E n \in NumberOfRoadsChoices, f \in NumericFields, v \in FieldValueChoices,
          bare \in BOOLEAN, rts \in BuildRouteChoices :
            data = BuildStore(n, f, v, bare, rts)
    /\ pc = "config"
    /\ roads = <<>>
    /\ dest_map = <<>>
    /\ step_sec = 0
    /\ fixed_yellow = 0
    /\ current_time = 0
    /\ steps_done = 0
    /\ entry = <<>>
    /\ snapshot = <<>>
    /\ moved = 0
    /\ injected = 0
    /\ blocked = 0
    /\ log = <<>>
    /\ cumulative = NoCounts
    /\ metrics = NoMetrics

\* Lines 290-295: the configuration scalars and build_roads.
Configure ==
    /\ pc = "config"
    /\ step_sec' = StepSec(data)
    /\ current_time' = CurrentTime(data)
    /\ fixed_yellow' = FixedYellow(data)
    /\ roads' = BuildRoads(data, NumRoads(data))
    /\ pc' = "routes"
    /\ UNCHANGED <<accVars, mibVars, data, dest_map, steps_done, entry, snapshot, moved,
                   injected, blocked, log, cumulative, metrics>>

\* Lines 297-318: dest_map.
ScanDests ==
    /\ pc = "routes"
    /\ dest_map' = BuildDestMap(data, NumRoads(data))
    /\ pc' = "built"
    /\ UNCHANGED <<accVars, mibVars, data, roads, step_sec, fixed_yellow, current_time,
                   steps_done, entry, snapshot, moved, injected, blocked, log, cumulative,
                   metrics>>

BuildNext == Configure \/ ScanDests

SpecBuild == BuildInit /\ [][BuildNext]_vars

\* The pairs whose origin and destination both parse as numbers.
RECURSIVE ParsableRoutes(_, _, _)
ParsableRoutes(routes, k, dm) ==
    IF k > Len(routes) THEN dm
    ELSE IF routes[k].roadId.t = "num" /\ routes[k].destId.t = "num"
    THEN ParsableRoutes(routes, k + 1, AppendDest(dm, routes[k].roadId.n, routes[k].destId.n))
    ELSE ParsableRoutes(routes, k + 1, dm)

\* C12: unparsable routing pairs are skipped.  dest_map holds the edges of
\* the pairs whose origin and destination parse as numbers and no other
\* edge; when there is no such pair and there are two roads or more, it is
\* the fallback 1 -> 2.
C12_UnparsableSkipped ==
    pc = "built" =>
        dest_map = IF DOMAIN ParsableRoutes(data.routes, 1, <<>>) = {} /\ Len(roads) >= 2
                   THEN [o \in {1} |-> <<2>>]
                   ELSE ParsableRoutes(data.routes, 1, <<>>)

\* C13: a road attribute whose value is present but does not parse as a
\* number is the constructor's default for that attribute, as when the key
\* is missing.
C13_DefaultOnParseFailure ==
    pc \in {"routes", "built"} =>
        \A i \in DOMAIN roads : \A f \in NumericFields :
            Get(data, i, f, None).t = "str" => roads[i][f] = NewRoad(i)[f]

-----------------------------------------------------------------------------
(***************************************************************************)
(* What the printed lines of the current step() add up to.                 *)
(***************************************************************************)

RECURSIVE SumSeq(_)
SumSeq(q) == IF q = <<>> THEN 0 ELSE Head(q) + SumSeq(Tail(q))

LogSum(lg, Amount(_)) == SumSeq([i \in 1..Len(lg) |-> Amount(lg[i])])

\* Vehicles that left the network from road rid.
ExitedFrom(lg, rid) ==
    LogSum(lg, LAMBDA e : IF e.tag \in {"OUT", "OUT-DEST"} /\ e.rid = rid THEN e.n ELSE 0)

\* Vehicles that went from road rid into another road of the network.
SentBy(lg, rid) ==
    LogSum(lg, LAMBDA e : IF e.tag = "MOVE" /\ e.rid = rid THEN e.n ELSE 0)

\* Vehicles that arrived on road rid from a road of the network.
ReceivedBy(lg, rid) ==
    LogSum(lg, LAMBDA e : IF e.tag = "MOVE" /\ e.dest = rid THEN e.n ELSE 0)

\* Vehicles injection admitted to road rid.
AdmittedTo(lg, rid) ==
    LogSum(lg, LAMBDA e : IF e.tag = "INJ" /\ e.rid = rid THEN e.n ELSE 0)

\* Allocations of road rid that found their destination full.
BlockedOf(lg, rid) ==
    LogSum(lg, LAMBDA e : IF e.tag = "BLOCKED" /\ e.rid = rid THEN e.alloc ELSE 0)

Exited(lg) == LogSum(lg, LAMBDA e : IF e.tag \in {"OUT", "OUT-DEST"} THEN e.n ELSE 0)

Internal(lg) == LogSum(lg, LAMBDA e : IF e.tag = "MOVE" THEN e.n ELSE 0)

\* Offered minus admitted, over the injection lines.
DroppedAtInjection(lg) ==
    LogSum(lg, LAMBDA e : IF e.tag = "INJ" THEN e.alloc - e.n ELSE 0)

\* Allocated minus moved, over the allocations to roads of the network.
Shortfall(lg) ==
    LogSum(lg, LAMBDA e : IF e.tag \in {"MOVE", "BLOCKED"} THEN e.alloc - e.n ELSE 0)

-----------------------------------------------------------------------------
(***************************************************************************)
(* Properties of the driver (Spec)                                         *)
(***************************************************************************)

\* C1: for every road, after every phase of every step and from any network
\* build_roads produces, 0 <= vehicleCount <= maxCapacity.
C1_CapacityInvariant ==
    \A i \in DOMAIN roads :
        /\ 0 <= roads[i].vehicleCount
        /\ roads[i].vehicleCount <= roads[i].maxCapacity

\* C2: conservation.  At every point of a step the vehicles on the roads
\* are those present when the step was entered, plus the admitted ones,
\* minus those that left the network; road by road, every vehicle that left
\* is on the road it was moved to or is counted as having left; and the
\* step's moved count is exactly the vehicles that left some road.
C2_Conservation ==
    pc \in {"lights", "inject", "move", "wait", "done"} =>
        /\ TotalVehicles(roads) = TotalVehicles(entry) + injected - Exited(log)
        /\ moved = Exited(log) + Internal(log)
        /\ \A i \in DOMAIN roads :
              roads[i].vehicleCount =
                  entry[i].vehicleCount + AdmittedTo(log, i) + ReceivedBy(log, i)
                  - SentBy(log, i) - ExitedFrom(log, i)

\* A step in which vehicles were admitted, moved between roads, left the
\* network and were blocked.
C2_Witness ==
    /\ pc = "wait"
    /\ injected > 0
    /\ Internal(log) > 0
    /\ Exited(log) > 0
    /\ blocked > 0

\* Roads 1 and 2 may both move at least one vehicle, send everything to the
\* one destination d, a road, and d has room for exactly one vehicle when
\* phase 2 starts.
TieBreakCase(d) ==
    /\ Len(roads) >= 2
    /\ d \in DOMAIN roads
    /\ Permitted(snapshot[1])
    /\ Permitted(snapshot[2])
    /\ CanCross(snapshot[1], step_sec) >= 1
    /\ CanCross(snapshot[2], step_sec) >= 1
    /\ DestsOf(dest_map, 1) = <<d>>
    /\ DestsOf(dest_map, 2) = <<d>>
    /\ snapshot[d].maxCapacity - snapshot[d].vehicleCount = 1

\* Road 1 moved one vehicle, road 2 none, and the whole allocation of road
\* 2 is in the blocked count.
TieBreakResult ==
    /\ SentBy(log, 1) = 1
    /\ SentBy(log, 2) = 0
    /\ roads[2].vehicleCount <= snapshot[2].vehicleCount + (IF DestsOf(dest_map, 1) = <<2>> THEN 1 ELSE 0)
    /\ BlockedOf(log, 2) = CanCross(snapshot[2], step_sec)
    /\ blocked >= BlockedOf(log, 2)

\* C4 as stated: whatever the shared destination.
C4_TieBreakAnyDestination ==
    pc = "wait" => \A d \in DOMAIN roads : TieBreakCase(d) => TieBreakResult

\* C4, amended: deterministic tie-break when the shared destination is not
\* road 1 itself.  Origins are served in ascending id against the live free
\* space of the destination: road 1 moves one vehicle, road 2 moves none and
\* its allocation is counted as blocked.
C4_TieBreak ==
    pc = "wait" =>
        \A d \in (DOMAIN roads) \ {1} : TieBreakCase(d) => TieBreakResult

\* Roads 1 and 2 compete for the one free place of road 3, road 1 with an
\* allocation of two.
C4_Witness ==
    /\ pc = "wait"
    /\ Len(roads) = 3
    /\ TieBreakCase(3)
    /\ CanCross(snapshot[1], step_sec) = 2

\* The colour changes of the cycle, with the time the new colour starts at.
CycleEdge(r, r2) ==
    \/ /\ r.trafficLightColor = "green"
       /\ r2.trafficLightColor = "yellow"
       /\ r2.remainingTime = fixed_yellow
    \/ /\ r.trafficLightColor = "yellow"
       /\ r2.trafficLightColor = "red"
       /\ r2.remainingTime = r.redLightTime
    \/ /\ r.trafficLightColor = "red"
       /\ r2.trafficLightColor = "green"
       /\ r2.remainingTime = r.greenLightTime

\* The fallback: a colour that is none of the three becomes red.
FallbackEdge(r, r2) ==
    /\ r.trafficLightColor \notin {"green", "yellow", "red"}
    /\ r2.trafficLightColor = "red"
    /\ r2.remainingTime = r.redLightTime

\* The lights have been updated k times and not yet k + 1 times.
AfterLights(k) ==
    \/ steps_done = k /\ pc = "lights"
    \/ steps_done = k - 1 /\ pc \in {"inject", "move", "wait"}

\* The scenario of C5: a road the store makes green with remainingTime 5,
\* under fixedYellowTime 3 and a step of 5 s, is yellow with 3 s after the
\* first step and red with redLightTime after the second.
LightScenario ==
    pc \in {"lights", "inject", "move", "wait"} =>
        \A i \in DOMAIN roads :
            (/\ BuildRoad(data, i).trafficLightColor = "green"
             /\ BuildRoad(data, i).remainingTime = 5
             /\ fixed_yellow = 3
             /\ step_sec = 5)
            => /\ AfterLights(1) =>
                    /\ roads[i].trafficLightColor = "yellow"
                    /\ roads[i].remainingTime = 3
               /\ AfterLights(2) =>
                    /\ roads[i].trafficLightColor = "red"
                    /\ roads[i].remainingTime = roads[i].redLightTime

\* A colour changes only in phase 0 of a step, once.
ChangesInPhase0 ==
    (\E i \in DOMAIN roads :
        i \in DOMAIN roads'
        /\ roads'[i].trafficLightColor # roads[i].trafficLightColor)
    => (pc = "lights" /\ pc' = "inject")

\* C5 as stated: every colour change is an edge of green -> yellow -> red
\* -> green.
C5_LightCycleOnly ==
    /\ []LightScenario
    /\ [][/\ ChangesInPhase0
          /\ \A i \in DOMAIN roads :
                (i \in DOMAIN roads'
                 /\ roads'[i].trafficLightColor # roads[i].trafficLightColor)
                => CycleEdge(roads[i], roads'[i])]_vars

\* C5, amended: light-cycle ordering.  A colour changes at most once per
\* step, in phase 0; from green, yellow or red it changes along green ->
\* yellow -> red -> green with remainingTime set to fixedYellowTime,
\* redLightTime, greenLightTime; from any other colour (the store's colour
\* is not validated) it changes to red with redLightTime; and the scenario
\* above holds.
C5_LightCycle ==
    /\ []LightScenario
    /\ [][/\ ChangesInPhase0
          /\ \A i \in DOMAIN roads :
                (i \in DOMAIN roads'
                 /\ roads'[i].trafficLightColor # roads[i].trafficLightColor)
                => (CycleEdge(roads[i], roads'[i])
                    \/ FallbackEdge(roads[i], roads'[i]))]_vars

\* The scenario's road after its second step.
C5_Witness ==
    /\ steps_done = 2
    /\ pc = "lights"
    /\ \E i \in DOMAIN roads :
        /\ BuildRoad(data, i).trafficLightColor = "green"
        /\ BuildRoad(data, i).remainingTime = 5
        /\ roads[i].trafficLightColor = "red"

\* C9: after the final step mostCongestedRoad is a road with the largest
\* vehicleCount, the lowest id among those; with two roads of which road 2
\* holds strictly more, it is 2.
C9_MostCongested ==
    pc = "done" =>
        /\ metrics.most_congested \in DOMAIN roads
        /\ \A j \in DOMAIN roads :
              /\ roads[j].vehicleCount <= roads[metrics.most_congested].vehicleCount
              /\ j < metrics.most_congested =>
                    roads[j].vehicleCount < roads[metrics.most_congested].vehicleCount
        /\ (Len(roads) = 2 /\ roads[2].vehicleCount > roads[1].vehicleCount)
              => metrics.most_congested = 2
        /\ data.mostCongestedRoad = Num(metrics.most_congested)

\* A run of at least one step that ends with two roads sharing the largest
\* vehicleCount, neither of them road 1.
C9_Witness ==
    /\ pc = "done"
    /\ steps_done >= 1
    /\ Len(roads) = 3
    /\ roads[2].vehicleCount = roads[3].vehicleCount
    /\ roads[1].vehicleCount < roads[2].vehicleCount
    /\ metrics.most_congested = 2

\* C10: the blocked count a step returns is the vehicles dropped at
\* injection plus, for every allocation to a road of the network, the
\* allocation minus what was moved, a partly moved allocation included.
C10_BlockedAccounting ==
    pc = "wait" => blocked = DroppedAtInjection(log) + Shortfall(log)


\* What road rid allocated in phase 2: to roads, to destinations outside
\* the network and to the outside.
AllocatedBy(lg, rid) ==
    LogSum(lg, LAMBDA e : IF e.tag \in {"MOVE", "BLOCKED", "OUT", "OUT-DEST"} /\ e.rid = rid
                          THEN e.alloc ELSE 0)

\* C11: vehicles blocked in movement are discarded.  After phase 2 every
\* road holds what it held after injection, less everything it allocated
\* (the part of an allocation that found no room included), plus what it
\* received.
C11_ShortfallDiscarded ==
    pc = "wait" =>
        \A i \in DOMAIN roads :
            roads[i].vehicleCount =
                snapshot[i].vehicleCount - AllocatedBy(log, i) + ReceivedBy(log, i)


\* C15: red blocks departures.  A road whose light, once phase 0 of the
\* step has run, is neither green nor yellow has after phase 2 at least the
\* vehicles it had after injection: it sent none to a road and none out of
\* the network, though it may have received some.
C15_RedBlocksDepartures ==
    pc = "wait" =>
        \A i \in DOMAIN roads :
            roads[i].trafficLightColor \notin {"green", "yellow"} =>
                /\ roads[i].vehicleCount >= snapshot[i].vehicleCount
                /\ roads[i].vehicleCount = snapshot[i].vehicleCount + ReceivedBy(log, i)
                /\ SentBy(log, i) = 0
                /\ ExitedFrom(log, i) = 0

\* A road under red that holds vehicles and received one more.
C15_Witness ==
    /\ pc = "wait"
    /\ \E i \in DOMAIN roads :
        /\ roads[i].trafficLightColor = "red"
        /\ snapshot[i].vehicleCount > 0
        /\ ReceivedBy(log, i) > 0


\* C16: snapshot-bounded outflow.  What leaves a road in phase 2, to roads
\* and out of the network together, is at most the vehicles the road held
\* in the snapshot and at most floor(outflowRate * stepSeconds / 60),
\* whatever the road received earlier in the phase.
\* vehicles_per_step, computed in doubles, is never above the exact floor.
PerStepAtMostFloor ==
    \A rate \in TableRates, sec \in TableSecs :
        VehiclesPerStep(rate, sec) <= (rate * sec) \div 60

C16_SnapshotBoundedOutflow ==
    /\ PerStepAtMostFloor
    /\ pc = "wait" =>
        \A i \in DOMAIN roads :
            /\ SentBy(log, i) + ExitedFrom(log, i) <= snapshot[i].vehicleCount
            /\ SentBy(log, i) + ExitedFrom(log, i)
                   <= (snapshot[i].outflowRate * step_sec) \div 60

\* A road that received a vehicle from a lower-numbered origin before its
\* own turn, and that sent on only the one vehicle of its snapshot, fewer
\* than its outflow allows and than it held by then.
C16_Witness ==
    /\ pc = "wait"
    /\ \E i \in DOMAIN roads :
        /\ \E k \in 1..Len(log) : log[k].tag = "MOVE" /\ log[k].dest = i /\ log[k].rid < i
        /\ snapshot[i].vehicleCount = 1
        /\ SentBy(log, i) + ExitedFrom(log, i) = 1
        /\ (snapshot[i].outflowRate * step_sec) \div 60 > 1


\* The phase after colour c, and the time a phase of colour c starts with
\* on road r.
NextColour(c) ==
    IF c = "green" THEN "yellow" ELSE IF c = "yellow" THEN "red"
    ELSE IF c = "red" THEN "green" ELSE "red"

FullDuration(r, c) ==
    IF c = "green" THEN r.greenLightTime
    ELSE IF c = "yellow" THEN fixed_yellow
    ELSE r.redLightTime

CeilDiv(a, b) == (a + b - 1) \div b

\* The light of road r, k steps after it entered colour c with D seconds,
\* when every phase entered with D > 0 lasts ceil(D / step) steps and hands
\* over to the next with that phase's full duration.
RECURSIVE LightAfter(_, _, _, _)
LightAfter(r, c, D, k) ==
    IF k < CeilDiv(D, step_sec)
    THEN [colour |-> c, remaining |-> D - k * step_sec]
    ELSE LightAfter(r, NextColour(c), FullDuration(r, NextColour(c)),
                    k - CeilDiv(D, step_sec))

\* Times update_traffic_lights has run so far.
LightUpdates == IF pc \in {"inject", "move", "wait"} THEN steps_done + 1 ELSE steps_done

\* C17: phase duration without overshoot carry.  With every duration
\* positive, the light of a road after k steps is the one reached from the
\* store's colour and remainingTime D > 0 by phases that last
\* ceil(D / simulationStepSeconds) steps each and start with the full
\* duration of their colour.
C17_PhaseDuration ==
    pc \in {"lights", "inject", "move", "wait"} =>
        \A i \in DOMAIN roads :
            (/\ BuildRoad(data, i).remainingTime > 0
             /\ roads[i].greenLightTime > 0
             /\ roads[i].redLightTime > 0)
            => LightAfter(roads[i], BuildRoad(data, i).trafficLightColor,
                          BuildRoad(data, i).remainingTime, LightUpdates)
                 = [colour |-> roads[i].trafficLightColor,
                    remaining |-> roads[i].remainingTime]

\* A road that entered its phase with 8 s under a step of 5 s, overran it
\* by 2 s in the second step and started the next phase with that phase's
\* full duration.
C17_Witness ==
    /\ pc = "inject"
    /\ steps_done = 1
    /\ step_sec = 5
    /\ \E i \in DOMAIN roads :
        /\ BuildRoad(data, i).remainingTime = 8
        /\ BuildRoad(data, i).trafficLightColor = "green"
        /\ roads[i].trafficLightColor = "yellow"
        /\ roads[i].remainingTime = fixed_yellow


KnownColours == {"green", "yellow", "red"}

\* remainingTime after the decrement of phase 0.
Decremented(r) ==
    IF r.remainingTime > 0 THEN r.remainingTime - step_sec ELSE r.remainingTime

\* C18: unknown-colour fallback.  A road whose colour is none of green,
\* yellow, red sends no vehicle anywhere; it keeps its colour while
\* its remainingTime stays positive after the decrement, and in the first
\* step in which it does not, it becomes red with remainingTime =
\* redLightTime; a colour that is one of the three stays one of the three.
C18_UnknownColourFallback ==
    /\ [](pc = "wait" =>
            \A i \in DOMAIN roads :
                roads[i].trafficLightColor \notin KnownColours =>
                    /\ SentBy(log, i) = 0
                    /\ ExitedFrom(log, i) = 0
                    /\ roads[i].vehicleCount >= snapshot[i].vehicleCount)
    /\ [][\A i \in (DOMAIN roads) \cap (DOMAIN roads') :
            /\ (roads[i].trafficLightColor \notin KnownColours /\ pc = "lights"
                /\ pc' = "inject") =>
                  IF Decremented(roads[i]) <= 0
                  THEN /\ roads'[i].trafficLightColor = "red"
                       /\ roads'[i].remainingTime = roads[i].redLightTime
                  ELSE /\ roads'[i].trafficLightColor = roads[i].trafficLightColor
                       /\ roads'[i].remainingTime = Decremented(roads[i])
            /\ (roads[i].trafficLightColor \notin KnownColours /\ pc' # "inject") =>
                  roads'[i].trafficLightColor = roads[i].trafficLightColor
            /\ roads[i].trafficLightColor \in KnownColours =>
                  roads'[i].trafficLightColor \in KnownColours]_vars

\* A road of unknown colour that kept it through phase 0, held vehicles it
\* could have sent under green, and later runs as a road under red.
C18_Witness ==
    /\ pc = "wait"
    /\ steps_done = 1
    /\ \E i \in DOMAIN roads :
        /\ BuildRoad(data, i).trafficLightColor = "blue"
        /\ BuildRoad(data, i).remainingTime = 8
        /\ entry[i].vehicleCount > 0
        /\ roads[i].trafficLightColor = "red"
        /\ roads[i].remainingTime = roads[i].redLightTime


\* What phase 1 offers road i: vehicles_fractional_add on the road as the
\* step found it.
Offered(i) ==
    VehiclesFractionalAdd(entry[i].trafficRate, step_sec, entry[i].in_accumulator)

\* Vehicles phase 1 added to road i.
Admitted(i) == roads[i].vehicleCount - entry[i].vehicleCount

\* Phase 1 has run and phase 2 has not: each road grew by room(i) or by
\* what it was offered, whichever is less; the step's injected count is the
\* sum of that and its blocked count the sum of what was offered and not
\* admitted; what is left in the accumulator is the fraction below one
\* vehicle, so nothing dropped is offered again.
AdmissionBy(room(_)) ==
    pc = "move" =>
        /\ \A i \in DOMAIN roads :
              /\ Admitted(i) = Min(Offered(i).to_add, room(i))
              /\ roads[i].in_accumulator = Offered(i).accum
              /\ FLessOne(roads[i].in_accumulator)
        /\ injected = SumSeq([i \in DOMAIN roads |-> Admitted(i)])
        /\ blocked = SumSeq([i \in DOMAIN roads |-> Offered(i).to_add - Admitted(i)])

-----------------------------------------------------------------------------
(***************************************************************************)
(* SpecLive: run() with no end to its loop ("for s in range(1, steps + 1)" *)
(* with steps beyond every number).  The network is empty of traffic, so   *)
(* that the vehicle-seconds stay at 0; the step number and the clock,      *)
(* which grow for ever and which no phase reads, are not followed.         *)
(***************************************************************************)

LiveRoads == 1..2

LiveStepChoices == {1, 5}

LiveYellowChoices == {1, 3}

\* greenLightTime and redLightTime as the store gives them: build_roads
\* takes them as they are, 0 included.
LiveGreenChoices == {0, 1, 7}

LiveRedChoices == {0, 5}

LiveColorChoices == {"green", "yellow", "red", "blue"}

LiveRemainingChoices == {0, 8}

\* A store of two empty roads with no inflow: road i starts under colour
\* k[i] with rt[i] seconds left.
LiveStore(stp, yellow, green, red, rt, k) ==
    [Store(2, 0, 0, [i \in LiveRoads |-> 0], k, <<>>) EXCEPT
        !.simulationStep = Num(stp),
        !.fixedYellowTime = Num(yellow),
        !.bare.greenLightTime = Num(green),
        !.bare.redLightTime = Num(red),
        !.idx = [i \in IdxRoads |->
                    IF i \in LiveRoads
                    THEN [@[i] EXCEPT !.remainingTime = Num(rt[i])]
                    ELSE @[i]]]

\* run() up to the loop: lines 287-331.
LiveInit ==
    /\ AccIdle
    /\ MibIdle
    /\ \E stp \in LiveStepChoices, yellow \in LiveYellowChoices,
          green \in LiveGreenChoices, red \in LiveRedChoices :
            \E rt \in [LiveRoads -> LiveRemainingChoices],
               k \in [LiveRoads -> LiveColorChoices] :
                data = LiveStore(stp, yellow, green, red, rt, k)
    /\ roads = BuildRoads(data, NumRoads(data))
    /\ dest_map = BuildDestMap(data, NumRoads(data))
    /\ step_sec = StepSec(data)
    /\ fixed_yellow = FixedYellow(data)
    /\ current_time = CurrentTime(data)
    /\ pc = "lights"
    /\ steps_done = 0
    /\ entry = roads
    /\ snapshot = roads
    /\ moved = 0
    /\ injected = 0
    /\ blocked = 0
    /\ log = <<>>
    /\ cumulative = NoCounts
    /\ metrics = NoMetrics

\* Phase 3, step() returns and run() adds up: lines 274-277 and 335-337;
\* the loop goes round.
LiveWait ==
    /\ pc = "wait"
    /\ roads' = WaitAll(roads, step_sec)
    /\ cumulative' = [moved    |-> cumulative.moved + moved,
                      injected |-> cumulative.injected + injected,
                      blocked  |-> cumulative.blocked + blocked]
    /\ pc' = "lights"
    /\ UNCHANGED <<accVars, mibVars, data, dest_map, step_sec, fixed_yellow, current_time,
                   steps_done, entry, snapshot, moved, injected, blocked, log, metrics>>

LiveNext ==
    \/ UpdateLights
    \/ Inject
    \/ Move
    \/ LiveWait

\* The place in the loop moves on.  Such a move is possible wherever the
\* loop is, and under LiveNext it is made by the phase whose turn it is and
\* by nothing else.
LiveAdvance ==
    \/ pc = "lights" /\ pc' = "inject"
    \/ pc = "inject" /\ pc' = "move"
    \/ pc = "move" /\ pc' = "wait"
    \/ pc = "wait" /\ pc' = "lights"

\* The loop body always runs on: nothing in it waits for anything, so the
\* phase whose turn it is is run.
SpecLive == LiveInit /\ [][LiveNext]_vars /\ WF_pc(LiveAdvance)

\* The four durations the claim asks to be at least 1 s.
LightsTimed ==
    /\ fixed_yellow >= 1
    /\ step_sec >= 1
    /\ \A i \in DOMAIN roads :
          /\ roads[i].greenLightTime >= 1
          /\ roads[i].redLightTime >= 1

\* C21: light liveness.  When fixedYellowTime, greenLightTime, redLightTime
\* and the step are all at least 1 s, in a run that never ends every road's
\* light is green again and again, yellow again and again and red again and
\* again, so no road stays in one colour for ever; and whenever phase 0 has
\* just run, every road has at least 1 s left on its timer.
C21_LightLiveness ==
    /\ [](LightsTimed /\ pc = "inject" =>
            \A i \in DOMAIN roads : roads[i].remainingTime >= 1)
    /\ \A i \in LiveRoads :
          /\ []<>(LightsTimed => roads[i].trafficLightColor = "green")
          /\ []<>(LightsTimed => roads[i].trafficLightColor = "yellow")
          /\ []<>(LightsTimed => roads[i].trafficLightColor = "red")

\* A road that started under an unknown colour with its timer at 0 has been
\* through red and green and is now yellow, the other road red.
C21_Witness ==
    /\ LightsTimed
    /\ pc = "inject"
    /\ data.idx[1].trafficLightColor = Str("blue")
    /\ data.idx[1].remainingTime = Num(0)
    /\ roads[1].trafficLightColor = "yellow"
    /\ roads[2].trafficLightColor = "red"

\* vehicleCount of road d once the lines lg of the step have happened, the
\* step having found the roads as entry has them.
CountAfter(lg, d) ==
    entry[d].vehicleCount + AdmittedTo(lg, d) + ReceivedBy(lg, d)
        - SentBy(lg, d) - ExitedFrom(lg, d)

\* Line k of the step's log put vehicles on road d.
AddsTo(k, d) ==
    /\ log[k].tag \in {"INJ", "MOVE"}
    /\ log[k].dest = d
    /\ log[k].n > 0

\* vehicleCount of the road as build_roads made it.
BuiltCount(i) == BuildRoads(data, NumRoads(data))[i].vehicleCount

\* C22: over-capacity roads never grow.  build_roads leaves a vehicleCount
\* above maxCapacity as it is; no injection and no inbound movement puts a
\* vehicle on a road that is, at that moment, at or above its maxCapacity,
\* and none takes a road past its maxCapacity; so every road always has
\* vehicleCount <= max(maxCapacity, its initial vehicleCount).  The log of
\* the step accounts for every change of vehicleCount, addition by addition.
C22_OverCapacityNeverGrows ==
    /\ [](\A d \in DOMAIN roads :
            /\ roads[d].vehicleCount = CountAfter(log, d)
            /\ \A k \in 1..Len(log) :
                  AddsTo(k, d) =>
                    /\ CountAfter(SubSeq(log, 1, k - 1), d) < roads[d].maxCapacity
                    /\ CountAfter(SubSeq(log, 1, k - 1), d) + log[k].n <= roads[d].maxCapacity
            /\ pc # "done" =>
                  roads[d].vehicleCount <= Max(roads[d].maxCapacity, BuiltCount(d)))
    /\ [][\A d \in DOMAIN roads :
            /\ roads'[d].maxCapacity = roads[d].maxCapacity
            /\ roads'[d].vehicleCount <= Max(roads[d].maxCapacity, roads[d].vehicleCount)
            /\ roads[d].vehicleCount >= roads[d].maxCapacity =>
                  roads'[d].vehicleCount <= roads[d].vehicleCount]_vars

\* Road 2 was built above its capacity; in this step it was offered a
\* vehicle by injection and one by road 1, and took neither.
C22_Witness ==
    /\ pc = "wait"
    /\ BuiltCount(2) > roads[2].maxCapacity
    /\ entry[2].vehicleCount > roads[2].maxCapacity
    /\ \E k \in 1..Len(log) :
          log[k].tag = "INJ" /\ log[k].rid = 2 /\ log[k].alloc > 0 /\ log[k].n = 0
    /\ \E k \in 1..Len(log) :
          log[k].tag = "BLOCKED" /\ log[k].rid = 1 /\ log[k].dest = 2
    /\ roads[2].vehicleCount = entry[2].vehicleCount
-----------------------------------------------------------------------------
(***************************************************************************)
(* The store codec.  Text is a sequence of characters.  The characters     *)
(* that matter to the code are "=", "#", the quotes, the blank, the line   *)
(* feed and, of the other characters str.splitlines breaks a line at, the  *)
(* form feed; "a" and "b" stand for every other character.                 *)
(***************************************************************************)

\* str.strip() with no argument strips these.
Whitespace == {" ", "\n", "\f"}

\* str.splitlines() ends a line at each of these.
LineBreaks == {"\n", "\f"}

RECURSIVE LStrip(_, _)
LStrip(s, cs) == IF s # <<>> /\ Head(s) \in cs THEN LStrip(Tail(s), cs) ELSE s

RECURSIVE RStrip(_, _)
RStrip(s, cs) ==
    IF s # <<>> /\ s[Len(s)] \in cs THEN RStrip(SubSeq(s, 1, Len(s) - 1), cs) ELSE s

StripChars(s, cs) == RStrip(LStrip(s, cs), cs)

Strip(s) == StripChars(s, Whitespace)

Has(s, cs) == \E i \in 1..Len(s) : s[i] \in cs

\* Index of the first character of s that is in cs.
Find(s, cs) == CHOOSE i \in 1..Len(s) : s[i] \in cs /\ \A j \in 1..(i - 1) : s[j] \notin cs

StartsWith(s, c) == s # <<>> /\ s[1] = c

\* line.split("=", 1) of a line that holds a "=".
BeforeEq(line) == SubSeq(line, 1, Find(line, {"="}) - 1)

AfterEq(line) == SubSeq(line, Find(line, {"="}) + 1, Len(line))

\* path.read_text().splitlines()
RECURSIVE SplitLines(_)
SplitLines(text) ==
    IF text = <<>> THEN <<>>
    ELSE IF Has(text, LineBreaks)
         THEN <<SubSeq(text, 1, Find(text, LineBreaks) - 1)>>
              \o SplitLines(SubSeq(text, Find(text, LineBreaks) + 1, Len(text)))
         ELSE <<text>>

\* The lines "for line in f" yields: each ends with its line feed, but
\* perhaps the last.
RECURSIVE FileLines(_)
FileLines(text) ==
    IF text = <<>> THEN <<>>
    ELSE IF Has(text, {"\n"})
         THEN <<SubSeq(text, 1, Find(text, {"\n"}))>>
              \o FileLines(SubSeq(text, Find(text, {"\n"}) + 1, Len(text)))
         ELSE <<text>>

\* A dict: its (key, value) pairs in iteration order.
DictHas(d, k) == \E i \in 1..Len(d) : d[i].k = k

DictGet(d, k) == d[CHOOSE i \in 1..Len(d) : d[i].k = k].v

DictSet(d, k, v) ==
    IF DictHas(d, k)
    THEN [i \in 1..Len(d) |-> IF d[i].k = k THEN [k |-> k, v |-> v] ELSE d[i]]
    ELSE Append(d, [k |-> k, v |-> v])

\* The body of parse_mib_text's loop on the stripped line.
ParseStripped(d, line) ==
    IF line = <<>> \/ StartsWith(line, "#") THEN d
    ELSE IF ~Has(line, {"="}) THEN d
    ELSE DictSet(d, Strip(BeforeEq(line)),
                 StripChars(StripChars(Strip(AfterEq(line)), {"\""}), {"'"}))

RECURSIVE ParseLines(_, _, _)
ParseLines(lines, i, d) ==
    IF i > Len(lines) THEN d
    ELSE ParseLines(lines, i + 1, ParseStripped(d, Strip(lines[i])))

parse_mib_text(text) == ParseLines(FileLines(text), 1, <<>>)

load_mib_raw(text) == SplitLines(text)

\* line.split("=", 1)[0].strip()
KeyOf(line) == Strip(BeforeEq(line))

\* f"{key} = {value}\n"
KeyValue(k, v) == k \o <<" ", "=", " ">> \o v \o <<"\n">>

\* line.rstrip("\n") + "\n"
Verbatim(line) == RStrip(line, {"\n"}) \o <<"\n">>

\* What one pass of the loop over raw_lines writes.
EncodeLine(line, dm) ==
    IF ~Has(line, {"="}) \/ StartsWith(Strip(line), "#") THEN Verbatim(line)
    ELSE IF DictHas(dm, KeyOf(line)) THEN KeyValue(KeyOf(line), DictGet(dm, KeyOf(line)))
    ELSE Verbatim(line)

ExistingKeys(lines) ==
    {KeyOf(lines[i]) : i \in {j \in 1..Len(lines) : Has(lines[j], {"="})}}

\* What one pass of the loop over data_map.items() writes.
EncodePair(p, keys) == IF p.k \notin keys THEN KeyValue(p.k, p.v) ELSE <<>>

RECURSIVE EncodeLines(_, _, _)
EncodeLines(lines, i, dm) ==
    IF i > Len(lines) THEN <<>>
    ELSE EncodeLine(lines[i], dm) \o EncodeLines(lines, i + 1, dm)

RECURSIVE EncodePairs(_, _, _)
EncodePairs(dm, i, keys) ==
    IF i > Len(dm) THEN <<>>
    ELSE EncodePair(dm[i], keys) \o EncodePairs(dm, i + 1, keys)

\* Everything the with-block of atomic_write_mib writes.
FullText(lines, dm) ==
    EncodeLines(lines, 1, dm) \o EncodePairs(dm, 1, ExistingKeys(lines))

-----------------------------------------------------------------------------
(***************************************************************************)
(* SpecMib: a store is loaded and written back by atomic_write_mib, which  *)
(* may fail, or the process die, at any point.  What a file holds is what  *)
(* a reader of the file sees; a write reaches the file when it is made.    *)
(***************************************************************************)

\* Most lines in a store.
MaxLines == 2

\* A blank line, a pair, a pair with blanks around the key, a comment
\* holding a "=", a line without "=", a pair with a quoted value.
LineChoices ==
    { <<>>,
      <<"a", "=", "a">>,
      <<" ", "a", " ", "=", "a">>,
      <<"#", "a", "=", "a">>,
      <<"a">>,
      <<"b", "=", "\"", "a", "\"">> }

\* What follows a line: a line feed, a form feed, nothing.
EndChoices == { <<"\n">>, <<"\f">>, <<>> }

RECURSIVE Join(_, _, _)
Join(lines, ends, i) ==
    IF i > Len(lines) THEN <<>>
    ELSE lines[i] \o ends[i] \o Join(lines, ends, i + 1)

StoreTexts ==
    UNION { { Join(ls, es, 1) : ls \in [1..n -> LineChoices], es \in [1..n -> EndChoices] }
            : n \in 0..MaxLines }

Pair(k, v) == [k |-> k, v |-> v]

\* The mappings written: none, and those over a key of a pair, a key no
\* line holds, a key only a comment holds.
MapChoices ==
    { <<>>,
      <<Pair(<<"a">>, <<"b">>)>>,
      <<Pair(<<"c">>, <<"b">>)>>,
      <<Pair(<<"#", "a">>, <<"b">>)>>,
      <<Pair(<<"c">>, <<"b">>), Pair(<<"b">>, <<"b">>), Pair(<<"d">>, <<>>)>>,
      <<Pair(<<"b">>, <<"b">>), Pair(<<"a">>, <<"a">>)>> }

\* What path + ".bak" holds before the run: nothing, or an older backup.
BakChoices == {Absent, File(<<"b">>)}

\* run() is called on a path that names a store or nothing.
MibInit ==
    /\ AccIdle
    /\ SimIdle
    /\ fs_main \in {Absent} \cup {File(t) : t \in StoreTexts}
    /\ fs_old = fs_main
    /\ fs_bak \in BakChoices
    /\ fs_tmp = Absent
    /\ bak_copy = "none"
    /\ raw_lines = <<>>
    /\ data_map \in MapChoices
    /\ existing_keys = {}
    /\ wpc = "start"
    /\ widx = 0
    /\ write = TRUE

\* A missing store that is made, empty, instead of being reported.
CheckExistsCreates ==
    /\ wpc = "start"
    /\ fs_main' = IF fs_main.exists THEN fs_main ELSE File(<<>>)
    /\ wpc' = "load"
    /\ UNCHANGED <<accVars, simVars, write, bak_copy, fs_bak, fs_tmp, fs_old, raw_lines, data_map,
                   existing_keys, widx>>

\* if not mib_path.exists(): raise FileNotFoundError
CheckExists ==
    /\ wpc = "start"
    /\ wpc' = IF fs_main.exists THEN "load" ELSE "not_found"
    /\ UNCHANGED <<accVars, simVars, write, bak_copy, fs_main, fs_bak, fs_tmp, fs_old, raw_lines, data_map,
                   existing_keys, widx>>

\* raw = load_mib_raw(mib_path)
Load ==
    /\ wpc = "load"
    /\ fs_main.exists
    /\ raw_lines' = load_mib_raw(fs_main.text)
    /\ wpc' = "backup"
    /\ UNCHANGED <<accVars, simVars, write, bak_copy, fs_main, fs_bak, fs_tmp, fs_old, data_map,
                   existing_keys, widx>>

\* shutil.copy2 never called, its failure passed over all the same.
BackupSkipped ==
    /\ wpc = "backup"
    /\ \E how \in {"ok", "failed"} : bak_copy' = how
    /\ wpc' = "mkstemp"
    /\ UNCHANGED <<accVars, simVars, write, fs_main, fs_bak, fs_tmp, fs_old, raw_lines, data_map,
                   existing_keys, widx>>

\* shutil.copy2(path, bak) in its try: the copy is made, or it fails, with
\* the backup untouched or cut short, and the failure is passed over.
Backup ==
    /\ wpc = "backup"
    /\ \/ /\ bak_copy' = "ok"
          /\ fs_bak' = File(fs_main.text)
       \/ /\ bak_copy' = "failed"
          /\ fs_bak' \in {fs_bak, File(<<>>)}
    /\ wpc' = "mkstemp"
    /\ UNCHANGED <<accVars, simVars, write, fs_main, fs_tmp, fs_old, raw_lines, data_map,
                   existing_keys, widx>>

\* mkstemp and tmp_path.open("w")
Mkstemp ==
    /\ wpc = "mkstemp"
    /\ fs_tmp' = File(<<>>)
    /\ widx' = 1
    /\ wpc' = "lines"
    /\ UNCHANGED <<accVars, simVars, write, bak_copy, fs_main, fs_bak, fs_old, raw_lines, data_map,
                   existing_keys>>

\* One pass of "for line in raw_lines".
WriteLine ==
    /\ wpc = "lines"
    /\ widx <= Len(raw_lines)
    /\ fs_tmp' = File(fs_tmp.text \o EncodeLine(raw_lines[widx], data_map))
    /\ widx' = widx + 1
    /\ UNCHANGED <<accVars, simVars, write, bak_copy, fs_main, fs_bak, fs_old, raw_lines, data_map,
                   existing_keys, wpc>>

\* existing_keys = {...}
CollectKeys ==
    /\ wpc = "lines"
    /\ widx > Len(raw_lines)
    /\ existing_keys' = ExistingKeys(raw_lines)
    /\ widx' = 1
    /\ wpc' = "pairs"
    /\ UNCHANGED <<accVars, simVars, write, bak_copy, fs_main, fs_bak, fs_tmp, fs_old, raw_lines, data_map>>

\* One pass of "for k, v in data_map.items()".
WritePair ==
    /\ wpc = "pairs"
    /\ widx <= Len(data_map)
    /\ fs_tmp' = File(fs_tmp.text \o EncodePair(data_map[widx], existing_keys))
    /\ widx' = widx + 1
    /\ UNCHANGED <<accVars, simVars, write, bak_copy, fs_main, fs_bak, fs_old, raw_lines, data_map,
                   existing_keys, wpc>>

\* The with-block is left: the temporary file is closed.
Close ==
    /\ wpc = "pairs"
    /\ widx > Len(data_map)
    /\ wpc' = "replace"
    /\ UNCHANGED <<accVars, simVars, write, bak_copy, fs_main, fs_bak, fs_tmp, fs_old, raw_lines, data_map,
                   existing_keys, widx>>

\* tmp_path.replace(path) before the with-block is done.
ReplaceEarly ==
    /\ wpc \in {"lines", "pairs", "replace"}
    /\ fs_main' = fs_tmp
    /\ fs_tmp' = Absent
    /\ wpc' = "done"
    /\ UNCHANGED <<accVars, simVars, write, bak_copy, fs_bak, fs_old, raw_lines, data_map, existing_keys,
                   widx>>

\* tmp_path.replace(path), then the finally clause.
Replace ==
    /\ wpc = "replace"
    /\ fs_main' = fs_tmp
    /\ fs_tmp' = Absent
    /\ wpc' = "done"
    /\ UNCHANGED <<accVars, simVars, write, bak_copy, fs_bak, fs_old, raw_lines, data_map, existing_keys,
                   widx>>

\* An exception leaves atomic_write_mib through the finally clause, or the
\* process dies: nothing more is done to any file.
Abort ==
    /\ wpc \in {"backup", "mkstemp", "lines", "pairs", "replace"}
    /\ wpc' = "aborted"
    /\ UNCHANGED <<accVars, simVars, write, bak_copy, fs_main, fs_bak, fs_tmp, fs_old, raw_lines, data_map,
                   existing_keys, widx>>

MibNext ==
    \/ CheckExists
    \/ Load
    \/ Backup
    \/ Mkstemp
    \/ WriteLine
    \/ CollectKeys
    \/ WritePair
    \/ Close
    \/ Replace
    \/ Abort

SpecMib == MibInit /\ [][MibNext]_vars

-----------------------------------------------------------------------------
(***************************************************************************)
(* Properties of the store codec (SpecMib)                                 *)
(***************************************************************************)

\* C3: atomic replacement.  Whatever happens during atomic_write_mib, a
\* failure or the death of the process at any point included, the file at
\* path holds the complete old content or the complete new content; and it
\* changes only by the rename, made once the temporary file holds all of
\* the new content.
C3_AtomicReplacement ==
    /\ [](\/ fs_main = fs_old
          \/ wpc = "done" /\ fs_main = File(FullText(raw_lines, data_map)))
    /\ [][fs_main' # fs_main =>
            /\ wpc = "replace"
            /\ fs_tmp = File(FullText(raw_lines, data_map))
            /\ fs_main' = fs_tmp]_vars

\* The write was cut short with part of the new content in the temporary
\* file, and the new content differs from the old.
C3_Witness ==
    /\ wpc = "aborted"
    /\ fs_tmp.exists
    /\ fs_tmp.text # <<>>
    /\ fs_tmp.text # FullText(raw_lines, data_map)
    /\ FullText(raw_lines, data_map) # fs_old.text
    /\ fs_main = fs_old

\* C7: round trip with an empty mapping.  The written store holds every
\* line of the loaded one, unchanged and in order, and decodes to the same
\* mapping as the store that was loaded.
C7_RoundTrip ==
    (wpc = "done" /\ data_map = <<>>) =>
        /\ fs_main.text = Join(raw_lines, [i \in 1..Len(raw_lines) |-> <<"\n">>], 1)
        /\ parse_mib_text(fs_main.text) = parse_mib_text(fs_old.text)

\* A data line as parse_mib_text sees it: not blank, not a comment, with a
\* "=".
IsDataLine(line) ==
    /\ Strip(line) # <<>>
    /\ ~StartsWith(Strip(line), "#")
    /\ Has(line, {"="})

DataKeys(lines) ==
    {KeyOf(lines[i]) : i \in {j \in 1..Len(lines) : IsDataLine(lines[j])}}

RECURSIVE RewrittenLines(_, _, _)
RewrittenLines(lines, i, dm) ==
    IF i > Len(lines) THEN <<>>
    ELSE (IF IsDataLine(lines[i]) /\ DictHas(dm, KeyOf(lines[i]))
          THEN KeyValue(KeyOf(lines[i]), DictGet(dm, KeyOf(lines[i])))
          ELSE lines[i] \o <<"\n">>)
         \o RewrittenLines(lines, i + 1, dm)

RECURSIVE AppendedPairs(_, _, _)
AppendedPairs(dm, i, keys) ==
    IF i > Len(dm) THEN <<>>
    ELSE (IF dm[i].k \in keys THEN <<>> ELSE KeyValue(dm[i].k, dm[i].v))
         \o AppendedPairs(dm, i + 1, keys)

\* C8: the rewrite rule.  The written file is the original lines in order,
\* each data line whose key is in the mapping replaced by "key = value" and
\* every other line copied, followed by "key = value" for each key of the
\* mapping that no original data line holds, in the mapping's order.
C8_RewriteRule ==
    wpc = "done" =>
        fs_main.text = RewrittenLines(raw_lines, 1, data_map)
                       \o AppendedPairs(data_map, 1, DataKeys(raw_lines))

\* C14: missing store file.  When nothing is at the path run() is given,
\* the only thing the run does is raise the file-not-found error: nothing
\* is loaded, no step is made, no network is built, and the store, its
\* backup and the temporary file are neither made nor changed.
C14_MissingStore ==
    /\ [](~fs_old.exists =>
            /\ wpc \in {"start", "not_found"}
            /\ ~fs_main.exists
            /\ ~fs_tmp.exists
            /\ raw_lines = <<>>
            /\ roads = <<>>
            /\ steps_done = 0)
    /\ [][~fs_old.exists =>
            /\ wpc = "start"
            /\ wpc' = "not_found"
            /\ UNCHANGED <<fs_main, fs_bak, fs_tmp, simVars>>]_vars

\* The error was raised next to an older backup.
C14_Witness ==
    /\ wpc = "not_found"
    /\ ~fs_old.exists
    /\ fs_bak = File(<<"b">>)

\* C20: backup step of the write protocol.  The store is copied to its
\* .bak sibling before any new content is written: no temporary file exists
\* and the store is as the run found it while the copy is still to be done,
\* and the backup is touched by that step alone.  After a write that
\* followed a copy that was made, .bak holds the content the run found.  A
\* copy that fails stops nothing: the temporary file is opened next, and a
\* finished write has replaced the store and left no temporary file,
\* whichever way the copy went.
C20_BackupStep ==
    /\ [](/\ bak_copy = "none" => ~fs_tmp.exists /\ fs_main = fs_old
          /\ bak_copy = "ok" /\ wpc # "aborted" => fs_bak = File(fs_old.text)
          /\ wpc = "done" =>
                /\ bak_copy \in {"ok", "failed"}
                /\ fs_main.exists
                /\ ~fs_tmp.exists
                /\ bak_copy = "ok" => fs_bak = File(fs_old.text))
    /\ [][/\ fs_bak' # fs_bak => wpc = "backup"
          /\ bak_copy' # bak_copy =>
                /\ wpc = "backup"
                /\ wpc' = "mkstemp"
                /\ UNCHANGED <<fs_main, fs_tmp>>
          /\ bak_copy = "failed" /\ wpc = "mkstemp" /\ wpc' # "aborted" =>
                /\ fs_tmp' = File(<<>>)
                /\ wpc' = "lines"]_vars

\* A write went through after its backup copy failed, the older backup
\* still in place, and the store holds new content.
C20_Witness ==
    /\ wpc = "done"
    /\ bak_copy = "failed"
    /\ fs_bak = File(<<"b">>)
    /\ fs_main # fs_old

\* A write went through after the backup copy was made over an older backup.
C20_WitnessCopied ==
    /\ wpc = "done"
    /\ bak_copy = "ok"
    /\ fs_bak = File(fs_old.text)
    /\ fs_bak # File(<<"b">>)
    /\ fs_main # fs_old

-----------------------------------------------------------------------------
(***************************************************************************)
(* SpecRun: one call of run(), from the look at the path to the return,    *)
(* with the files around it.  The decoded store the steps work on is one   *)
(* of RunStoreChoices and the mapping handed to atomic_write_mib one of    *)
(* MapChoices: what the text of a store decodes to and what is written     *)
(* for a mapping are the matter of SpecMib.                                *)
(***************************************************************************)

\* What the path holds when run() is called.
RunFileChoices ==
    { Absent,
      File(<<"a", "=", "a", "\n">>),
      File(<<"a", "=", "a", "\n", "#", "a", "=", "a">>) }

\* Two roads, road 1 feeding road 2, one vehicle of inflow per step each.
RunStoreChoices ==
    { Store(2, 12, 5, c, k, <<>>) :
        c \in [1..2 -> CountChoices], k \in [1..2 -> {"green", "red"}] }

RunInit ==
    /\ AccIdle
    /\ SimIdle
    /\ fs_main \in RunFileChoices
    /\ fs_old = fs_main
    /\ fs_bak \in BakChoices
    /\ fs_tmp = Absent
    /\ bak_copy = "none"
    /\ raw_lines = <<>>
    /\ data_map = <<>>
    /\ existing_keys = {}
    /\ wpc = "start"
    /\ widx = 0
    /\ write \in BOOLEAN

\* raw = load_mib_raw(mib_path), data = parse_mib_text(mib_path) and run()
\* up to the loop: lines 287-331.
RunLoad ==
    /\ wpc = "load"
    /\ fs_main.exists
    /\ raw_lines' = load_mib_raw(fs_main.text)
    /\ \E d \in RunStoreChoices :
        \E rs \in {BuildRoads(d, NumRoads(d))} :
           /\ data' = d
           /\ roads' = rs
           /\ entry' = rs
           /\ snapshot' = rs
           /\ dest_map' = BuildDestMap(d, NumRoads(d))
           /\ step_sec' = StepSec(d)
           /\ fixed_yellow' = FixedYellow(d)
           /\ current_time' = CurrentTime(d)
    /\ pc' = "lights"
    /\ steps_done' = 0
    /\ moved' = 0
    /\ injected' = 0
    /\ blocked' = 0
    /\ log' = <<>>
    /\ cumulative' = NoCounts
    /\ metrics' = NoMetrics
    /\ wpc' = "steps"
    /\ UNCHANGED <<accVars, write, bak_copy, fs_main, fs_bak, fs_tmp, fs_old, data_map,
                   existing_keys, widx>>

\* atomic_write_mib is entered whatever write says.
StartWriteAlways ==
    /\ pc = "done"
    /\ wpc = "steps"
    /\ data_map' \in MapChoices
    /\ wpc' = "backup"
    /\ UNCHANGED <<accVars, simVars, write, bak_copy, fs_main, fs_bak, fs_tmp, fs_old, raw_lines,
                   existing_keys, widx>>

\* "if write: atomic_write_mib(mib_path, raw, data)", lines 365-366.
StartWrite ==
    /\ pc = "done"
    /\ wpc = "steps"
    /\ write
    /\ data_map' \in MapChoices
    /\ wpc' = "backup"
    /\ UNCHANGED <<accVars, simVars, write, bak_copy, fs_main, fs_bak, fs_tmp, fs_old, raw_lines,
                   existing_keys, widx>>

\* "return roads, data", with nothing written or after the write.
Return ==
    /\ pc = "done"
    /\ \/ wpc = "steps" /\ ~write
       \/ wpc = "done"
    /\ wpc' = "returned"
    /\ UNCHANGED <<accVars, simVars, write, bak_copy, fs_main, fs_bak, fs_tmp, fs_old, raw_lines,
                   data_map, existing_keys, widx>>

RunNext ==
    \/ CheckExists
    \/ RunLoad
    \/ UpdateLights
    \/ Inject
    \/ Move
    \/ Wait
    \/ Finish
    \/ StartWrite
    \/ Backup
    \/ Mkstemp
    \/ WriteLine
    \/ CollectKeys
    \/ WritePair
    \/ Close
    \/ Replace
    \/ Abort
    \/ Return

SpecRun == RunInit /\ [][RunNext]_vars

\* The three files next to the path.
RunFiles == <<fs_main, fs_bak, fs_tmp>>

\* C23: write-back frame.  With write disabled no step of the run changes
\* the store, its .bak or a temporary file, however many steps are made,
\* and the mapping the run returns holds the roads, the clock and the
\* metrics as the last step left them.  With write enabled the files are
\* as the run found them until the steps are over; they change only inside
\* the one call of atomic_write_mib that follows, and the store itself only
\* by its replace, after which the run does nothing but return.
C23_WriteBackFrame ==
    /\ [](/\ ~write \/ wpc \in {"start", "load", "not_found", "steps"} =>
                /\ fs_main = fs_old
                /\ ~fs_tmp.exists
                /\ bak_copy = "none"
          /\ wpc = "returned" =>
                /\ data = UpdateData(data, roads, current_time, metrics)
                /\ data.currentSimulationTime = Num(steps_done * step_sec)
                /\ metrics.total_vehicles = TotalVehicles(roads)
                /\ ~write => fs_main = fs_old)
    /\ [][/\ ~write => UNCHANGED RunFiles
          /\ RunFiles' # RunFiles =>
                /\ write
                /\ pc = "done"
                /\ wpc \in {"backup", "mkstemp", "lines", "pairs", "replace"}
                /\ UNCHANGED simVars
          /\ fs_main' # fs_main => wpc = "replace" /\ wpc' = "done"
          /\ wpc = "done" => wpc' = "returned" /\ UNCHANGED RunFiles]_vars

\* A run of MaxSteps steps with write disabled has returned: vehicles are
\* on the roads and in the mapping, the clock has moved on, and the store
\* is there as it was, with no backup beside it.
C23_Witness ==
    /\ wpc = "returned"
    /\ ~write
    /\ steps_done = MaxSteps
    /\ data.totalVehicles = Num(TotalVehicles(roads))
    /\ TotalVehicles(roads) > 0
    /\ data.currentSimulationTime = Num(MaxSteps * step_sec)
    /\ fs_main.exists
    /\ fs_main = fs_old
    /\ ~fs_bak.exists
    /\ ~fs_tmp.exists

====
